---- MODULE Spec2Model ----
(***************************************************************************)
(* The MyLeaf collaboration relay (collab-server.js): room registry,       *)
(* connection admission, the framed message loop and the close handler.    *)
(*                                                                         *)
(* Frames are sequences of bytes, exactly as the relay reads and writes    *)
(* them with lib0 (varuint tag, varuint sub-type, length-prefixed          *)
(* payload).  The Yjs document is a grow-only set of structs ("atoms");    *)
(* an update is the byte string <<n, a1, .., an, 0>> (n structs, empty     *)
(* delete set) and a state vector is <<n, a1, .., an>>.  An awareness      *)
(* update is <<n, id1, clock1, st1, ..>> with st = 0 for JSON null.        *)
(*                                                                         *)
(* A room name is the sequence of its colon-separated segments:            *)
(* "project:p1:file:f1" is <<"project", "p1", "file", "f1">>.              *)
(***************************************************************************)
EXTENDS Integers, Sequences, FiniteSets, TLC

\* ---------------------------------------------------------------- bounds
MaxFrames == 2

Conns == {1, 2, 3}

\* ------------------------------------------------------ program constants
messageSync == 0
messageAwareness == 1
messageYjsSyncStep1 == 0
messageYjsSyncStep2 == 1
messageYjsUpdate == 2
CloseAuthRequired == 4001
CloseAccessDenied == 4003

Null == "null"

\* ------------------------------------------------------------ lib0 codec
RECURSIVE VarUint(_)
VarUint(n) ==
    IF n < 128 THEN <<n>> ELSE <<128 + (n % 128)>> \o VarUint(n \div 128)

VarUint8Array(bytes) == VarUint(Len(bytes)) \o bytes

DecodeError == [ok |-> FALSE, val |-> 0, bytes |-> <<>>, pos |-> 0]

RECURSIVE Pow128(_)
Pow128(k) == IF k = 0 THEN 1 ELSE 128 * Pow128(k - 1)

\* k is the number of continuation bytes read so far
RECURSIVE readVarUintFrom(_, _, _, _)
readVarUintFrom(arr, pos, num, k) ==
    IF pos > Len(arr) \/ k > 4
    THEN DecodeError
    ELSE IF arr[pos] < 128
         THEN [ok |-> TRUE, val |-> num + arr[pos] * Pow128(k),
               bytes |-> <<>>, pos |-> pos + 1]
         ELSE readVarUintFrom(arr, pos + 1,
                              num + (arr[pos] % 128) * Pow128(k), k + 1)

readVarUint(arr, pos) == readVarUintFrom(arr, pos, 0, 0)

readVarUint8Array(arr, pos) ==
    LET n == readVarUint(arr, pos)
    IN  IF ~n.ok THEN DecodeError
        ELSE IF n.pos + n.val - 1 > Len(arr) THEN DecodeError
        ELSE [ok |-> TRUE, val |-> n.val,
              bytes |-> SubSeq(arr, n.pos, n.pos + n.val - 1),
              pos |-> n.pos + n.val]

\* data.slice(k): the bytes from (0-based) index k on
slice(arr, k) == SubSeq(arr, k + 1, Len(arr))

Range(s) == {s[i] : i \in DOMAIN s}

Min(S) == CHOOSE x \in S : \A y \in S : x <= y

RECURSIVE SortedSeq(_)
SortedSeq(S) == IF S = {} THEN <<>> ELSE <<Min(S)>> \o SortedSeq(S \ {Min(S)})

\* ------------------------------------------------------------ room names
P1F1 == <<"project", "p1", "file", "f1">>
P1F2 == <<"project", "p1", "file", "f2">>
P2F9 == <<"project", "p2", "file", "f9">>
Scratchpad == <<"scratchpad">>

ProjectP1File == <<"project", "p1", "file">>
ExtraSegment == <<"project", "p1", "file", "f1", "x">>
EmptyProject == <<"project", "", "file", "f1">>
EmptyFile == <<"project", "p1", "file", "">>
OtherPrefix == <<"projects", "p1", "file", "f1">>

RoomNames == {P1F1, P1F2, P2F9, Scratchpad, ProjectP1File, ExtraSegment,
              EmptyProject, EmptyFile, OtherPrefix}

\* the name as one string, segments joined by ":"
RECURSIVE Join(_)
Join(segs) ==
    IF Len(segs) = 0 THEN ""
    ELSE IF Len(segs) = 1 THEN segs[1]
    ELSE segs[1] \o ":" \o Join(Tail(segs))

\* seeded fault: a name that does not match is taken for a project id
parseRoomName_LegacyAsProject(roomName) ==
    IF /\ Len(roomName) = 4
       /\ roomName[1] = "project"
       /\ roomName[2] # ""
       /\ roomName[3] = "file"
       /\ roomName[4] # ""
    THEN [projectId |-> roomName[2], fileId |-> roomName[4]]
    ELSE [projectId |-> Join(roomName), fileId |-> Join(roomName)]

\* seeded fault: the pattern is not anchored at the end of the name
parseRoomName_Unanchored(roomName) ==
    IF /\ Len(roomName) >= 4
       /\ roomName[1] = "project"
       /\ roomName[2] # ""
       /\ roomName[3] = "file"
       /\ roomName[4] # ""
    THEN [projectId |-> roomName[2], fileId |-> roomName[4]]
    ELSE [projectId |-> Null, fileId |-> Join(roomName)]

parseRoomName(roomName) ==
    IF /\ Len(roomName) = 4
       /\ roomName[1] = "project"
       /\ roomName[2] # ""
       /\ roomName[3] = "file"
       /\ roomName[4] # ""
    THEN [projectId |-> roomName[2], fileId |-> roomName[4]]
    ELSE [projectId |-> Null, fileId |-> Join(roomName)]

\* ------------------------------------------------- the backing store (db)
\* session rows: id -> user, and whether expiresAt is in the past
SessionRows == [s_own  |-> [user |-> "u_own",  expired |-> FALSE],
                s_edit |-> [user |-> "u_edit", expired |-> FALSE],
                s_view |-> [user |-> "u_view", expired |-> FALSE],
                s_none |-> [user |-> "u_none", expired |-> FALSE],
                s_old  |-> [user |-> "u_own",  expired |-> TRUE]]

\* project rows: id -> ownerId ("p2" has no row)
ProjectRows == [p1 |-> "u_own"]

\* projectCollaborator rows of p1: userId -> role
CollaboratorRows == [p1 |-> [u_edit |-> "editor", u_view |-> "viewer"]]

Cookies == {Null, "s_own", "s_edit", "s_view", "s_none", "s_old", "s_bad"}

\* ------------------------------------------- Yjs document (opaque library)
Atoms == {1, 2}

NewDoc == {}

encodeStateVector(doc) == <<Cardinality(doc)>> \o SortedSeq(doc)

decodeStateVector(bytes) ==
    IF Len(bytes) >= 1 /\ Len(bytes) = bytes[1] + 1
    THEN [ok |-> TRUE, set |-> Range(SubSeq(bytes, 2, Len(bytes)))]
    ELSE [ok |-> FALSE, set |-> {}]

decodeUpdate(bytes) ==
    IF Len(bytes) >= 2 /\ Len(bytes) = bytes[1] + 2 /\ bytes[Len(bytes)] = 0
    THEN [ok |-> TRUE, set |-> Range(SubSeq(bytes, 2, Len(bytes) - 1))]
    ELSE [ok |-> FALSE, set |-> {}]

encodeUpdate(structs) == <<Cardinality(structs)>> \o SortedSeq(structs) \o <<0>>

encodeStateAsUpdate(doc, sv) == encodeUpdate(doc \ sv)

applyUpdate(doc, structs) == doc \cup structs

\* y-protocols/sync
writeSyncStep1(doc) ==
    VarUint(messageYjsSyncStep1) \o VarUint8Array(encodeStateVector(doc))

writeSyncStep2(doc, sv) ==
    VarUint(messageYjsSyncStep2) \o VarUint8Array(encodeStateAsUpdate(doc, sv))

writeUpdate(update) == VarUint(messageYjsUpdate) \o VarUint8Array(update)

SyncThrow(doc) == [throws |-> TRUE, type |-> 0, reply |-> <<>>, doc |-> doc]

\* reads the sync message at pos, returns what it wrote to the encoder
\* (reply), the document after it, and the message type
readSyncMessage(arr, pos, doc) ==
    LET t == readVarUint(arr, pos)
        p == readVarUint8Array(arr, t.pos)
    IN  IF ~t.ok THEN SyncThrow(doc)
        ELSE IF t.val = messageYjsSyncStep1
        THEN IF ~p.ok \/ ~decodeStateVector(p.bytes).ok THEN SyncThrow(doc)
             ELSE [throws |-> FALSE, type |-> t.val,
                   reply |-> writeSyncStep2(doc, decodeStateVector(p.bytes).set),
                   doc |-> doc]
        ELSE IF t.val \in {messageYjsSyncStep2, messageYjsUpdate}
        THEN IF ~p.ok \/ ~decodeUpdate(p.bytes).ok THEN SyncThrow(doc)
             ELSE [throws |-> FALSE, type |-> t.val, reply |-> <<>>,
                   doc |-> applyUpdate(doc, decodeUpdate(p.bytes).set)]
        ELSE SyncThrow(doc)

\* ---------------------------------------- awareness table (opaque library)
\* doc.clientID of a room's server-side document, which is also the
\* clientID of the room's Awareness instance
ServerId == 9

\* JSON codes of presence states: 0 is null, 1 is {}, 2 is a cursor state
StateNull == 0
StateEmpty == 1

\* new Awareness(doc): the constructor sets the local state to {}
NewAwareness ==
    [states |-> <<[id |-> ServerId, st |-> StateEmpty]>>,
     meta |-> [k \in {ServerId} |-> 0]]

HasState(states, id) == \E i \in DOMAIN states : states[i].id = id

GetState(states, id) ==
    IF HasState(states, id)
    THEN states[CHOOSE i \in DOMAIN states : states[i].id = id].st
    ELSE StateNull

SetState(states, id, st) ==
    IF HasState(states, id)
    THEN [i \in DOMAIN states |->
            IF states[i].id = id THEN [id |-> id, st |-> st] ELSE states[i]]
    ELSE Append(states, [id |-> id, st |-> st])

DeleteState(states, id) == SelectSeq(states, LAMBDA e : e.id # id)

SetMeta(meta, id, clock) ==
    [k \in DOMAIN meta \cup {id} |-> IF k = id THEN clock ELSE meta[k]]

ApplyEntry(aw, id, clock, st) ==
    LET currClock == IF id \in DOMAIN aw.meta THEN aw.meta[id] ELSE 0
    IN  IF \/ currClock < clock
           \/ (currClock = clock /\ st = StateNull /\ HasState(aw.states, id))
        THEN IF st = StateNull
             THEN IF id = ServerId /\ HasState(aw.states, ServerId)
                  THEN [states |-> aw.states,
                        meta |-> SetMeta(aw.meta, id, clock + 1)]
                  ELSE [states |-> DeleteState(aw.states, id),
                        meta |-> SetMeta(aw.meta, id, clock)]
             ELSE [states |-> SetState(aw.states, id, st),
                   meta |-> SetMeta(aw.meta, id, clock)]
        ELSE aw

RECURSIVE ApplyEntries(_, _, _)
ApplyEntries(aw, bytes, i) ==
    IF i + 2 > Len(bytes) THEN aw
    ELSE ApplyEntries(ApplyEntry(aw, bytes[i], bytes[i + 1], bytes[i + 2]),
                      bytes, i + 3)

applyAwarenessUpdate(aw, update) ==
    IF Len(update) >= 1 /\ Len(update) = 1 + 3 * update[1]
    THEN [ok |-> TRUE, aw |-> ApplyEntries(aw, update, 2)]
    ELSE [ok |-> FALSE, aw |-> aw]

RECURSIVE EncodeEntries(_, _)
EncodeEntries(aw, states) ==
    IF states = <<>> THEN <<>>
    ELSE <<states[1].id, aw.meta[states[1].id], states[1].st>>
         \o EncodeEntries(aw, Tail(states))

\* encodeAwarenessUpdate(awareness, Array.from(awareness.getStates().keys()))
encodeAwarenessUpdate(aw) == <<Len(aw.states)>> \o EncodeEntries(aw, aw.states)

removeAwarenessStates(aw, id) ==
    IF HasState(aw.states, id)
    THEN [states |-> DeleteState(aw.states, id),
          meta |-> IF id = ServerId
                   THEN SetMeta(aw.meta, id, aw.meta[id] + 1)
                   ELSE aw.meta]
    ELSE aw

\* ------------------------------------------------------------------ state
VARIABLES
    dbUrl,       \* DATABASE_URL is set
    docs,        \* the docs Map: room name -> [doc, awareness, conns]
    pc,          \* where each connection's 'connection' handler stands
    url,         \* the room name in the connection's request URL
    cookie,      \* the myleaf_session cookie of the request (or Null)
    user,        \* the handler's user / conn.user
    accessRole,  \* conn.accessRole
    readyState,  \* conn.readyState
    closeCode,   \* the code the relay passed to conn.close (0: never called)
    sent,        \* the frames conn.send was called with, in order
    crashed,     \* an exception escaped a handler: the process is gone
    nframes,     \* client frames delivered so far
    last         \* the latest frame a client sent, and whether its sender was admitted

vars == <<dbUrl, docs, pc, url, cookie, user, accessRole, readyState,
          closeCode, sent, crashed, nframes, last>>

NoEvent == [conn |-> 0, data |-> <<>>, admitted |-> FALSE]

Event(c, data) == [conn |-> c, data |-> data, admitted |-> pc[c] = "active"]

Init ==
    /\ dbUrl \in BOOLEAN
    /\ docs = [n \in {} |-> 0]
    /\ pc = [c \in Conns |-> "new"]
    /\ url = [c \in Conns |-> Scratchpad]
    /\ cookie = [c \in Conns |-> Null]
    /\ user = [c \in Conns |-> Null]
    /\ accessRole = [c \in Conns |-> "unset"]
    /\ readyState = [c \in Conns |-> "CONNECTING"]
    /\ closeCode = [c \in Conns |-> 0]
    /\ sent = [c \in Conns |-> <<>>]
    /\ crashed = FALSE
    /\ nframes = 0
    /\ last = NoEvent

\* seeded fault: conn.isReadOnly is never derived from the role
isReadOnly_Unset(c) == FALSE

isReadOnly(c) == accessRole[c] = "viewer"

\* seeded fault: the Map is not consulted, every call makes a new room
getYDoc_AlwaysNew(m, docName) ==
    [n \in DOMAIN m \cup {docName} |->
        IF n = docName
        THEN [doc |-> NewDoc, awareness |-> NewAwareness, conns |-> {}]
        ELSE m[n]]

\* getYDoc(docName) on the Map m: the Map afterwards
getYDoc(m, docName) ==
    IF docName \in DOMAIN m THEN m
    ELSE [n \in DOMAIN m \cup {docName} |->
            IF n = docName
            THEN [doc |-> NewDoc, awareness |-> NewAwareness, conns |-> {}]
            ELSE m[n]]

\* send(conn, message) applied to the function of sent frames
send(s, c, message) ==
    IF readyState[c] = "OPEN" THEN [s EXCEPT ![c] = Append(@, message)] ELSE s

\* seeded fault: the frame goes to every client of the server
broadcast_AllClients(s, conns, conn, message) ==
    [p \in Conns |->
        IF p # conn /\ readyState[p] = "OPEN"
        THEN Append(s[p], message) ELSE s[p]]

\* seeded fault: a relayed frame overtakes the frames sent before it
broadcast_Overtaking(s, conns, conn, message) ==
    [p \in Conns |->
        IF p \in conns /\ p # conn /\ readyState[p] = "OPEN"
        THEN <<message>> \o s[p] ELSE s[p]]

\* conns.forEach(c => { if (c !== conn) send(c, message); })
broadcast(s, conns, conn, message) ==
    [p \in Conns |->
        IF p \in conns /\ p # conn /\ readyState[p] = "OPEN"
        THEN Append(s[p], message) ELSE s[p]]

\* ------------------------------------------------------ access resolver
\* seeded fault: the expiry of the session row is not looked at
validateSession_IgnoresExpiry(sessionId, dbFails) ==
    IF sessionId = Null THEN Null
    ELSE IF ~dbUrl THEN Null
    ELSE IF dbFails THEN Null
    ELSE IF sessionId \notin DOMAIN SessionRows THEN Null
    ELSE SessionRows[sessionId].user

\* seeded fault: without a store every cookie is taken for a guest user
validateSession_NoStoreGuest(sessionId, dbFails) ==
    IF sessionId = Null THEN Null
    ELSE IF ~dbUrl THEN "u_none"
    ELSE IF dbFails THEN Null
    ELSE IF sessionId \notin DOMAIN SessionRows THEN Null
    ELSE IF SessionRows[sessionId].expired THEN Null
    ELSE SessionRows[sessionId].user

validateSession(sessionId, dbFails) ==
    IF sessionId = Null THEN Null
    ELSE IF ~dbUrl THEN Null
    ELSE IF dbFails THEN Null
    ELSE IF sessionId \notin DOMAIN SessionRows THEN Null
    ELSE IF SessionRows[sessionId].expired THEN Null
    ELSE SessionRows[sessionId].user

\* seeded fault: a user without a collaborator row is let in as a viewer
checkProjectAccess_DefaultViewer(userId, projectId, dbFails) ==
    IF userId = Null \/ projectId = Null THEN Null
    ELSE IF ~dbUrl THEN "editor"
    ELSE IF dbFails THEN Null
    ELSE IF projectId \notin DOMAIN ProjectRows THEN Null
    ELSE IF ProjectRows[projectId] = userId THEN "owner"
    ELSE IF userId \in DOMAIN CollaboratorRows[projectId]
         THEN CollaboratorRows[projectId][userId]
         ELSE "viewer"

\* seeded fault: "no role" is returned as the (truthy) string none
checkProjectAccess_NoneString(userId, projectId, dbFails) ==
    IF userId = Null \/ projectId = Null THEN Null
    ELSE IF ~dbUrl THEN "editor"
    ELSE IF dbFails THEN Null
    ELSE IF projectId \notin DOMAIN ProjectRows THEN Null
    ELSE IF ProjectRows[projectId] = userId THEN "owner"
    ELSE IF userId \in DOMAIN CollaboratorRows[projectId]
         THEN CollaboratorRows[projectId][userId]
         ELSE "none"

checkProjectAccess(userId, projectId, dbFails) ==
    IF userId = Null \/ projectId = Null THEN Null
    ELSE IF ~dbUrl THEN "editor"
    ELSE IF dbFails THEN Null
    ELSE IF projectId \notin DOMAIN ProjectRows THEN Null
    ELSE IF ProjectRows[projectId] = userId THEN "owner"
    ELSE IF userId \in DOMAIN CollaboratorRows[projectId]
         THEN CollaboratorRows[projectId][userId]
         ELSE Null

\* ------------------------------------------------------------ admission
\* a client opens a transport: the 'connection' handler starts and suspends
\* in validateSession
Connect(c, requests) ==
    /\ ~crashed
    /\ pc[c] = "new"
    /\ \E req \in requests :
        /\ url' = [url EXCEPT ![c] = req[1]]
        /\ cookie' = [cookie EXCEPT ![c] = req[2]]
    /\ pc' = [pc EXCEPT ![c] = "validating"]
    /\ readyState' = [readyState EXCEPT ![c] = "OPEN"]
    /\ UNCHANGED <<dbUrl, docs, user, accessRole, closeCode, sent, crashed,
                   nframes, last>>

\* conn.close(code, reason)
Reject(c, code) ==
    /\ pc' = [pc EXCEPT ![c] = "rejected"]
    /\ closeCode' = [closeCode EXCEPT ![c] = code]
    /\ readyState' = [readyState EXCEPT ![c] = "CLOSED"]
    /\ UNCHANGED <<docs, accessRole, sent>>

\* seeded fault: one connection set shared by all rooms
Admit_SharedConns(c, role) ==
    LET m == getYDoc(docs, url[c])
        room == m[url[c]]
        step1 == VarUint(messageSync) \o writeSyncStep1(room.doc)
        snapshot == VarUint(messageAwareness)
                    \o VarUint8Array(encodeAwarenessUpdate(room.awareness))
    IN  /\ accessRole' = [accessRole EXCEPT ![c] = role]
        /\ docs' = [n \in DOMAIN m |-> [m[n] EXCEPT !.conns = @ \cup {c}]]
        /\ sent' = send(send(sent, c, step1), c, snapshot)
        /\ pc' = [pc EXCEPT ![c] = "active"]
        /\ UNCHANGED <<closeCode, readyState>>

\* lines 159-232: the connection joins its room and gets the initial frames
Admit(c, role) ==
    LET m == getYDoc(docs, url[c])
        room == m[url[c]]
        step1 == VarUint(messageSync) \o writeSyncStep1(room.doc)
        snapshot == VarUint(messageAwareness)
                    \o VarUint8Array(encodeAwarenessUpdate(room.awareness))
    IN  /\ accessRole' = [accessRole EXCEPT ![c] = role]
        /\ docs' = [m EXCEPT ![url[c]].conns = @ \cup {c}]
        /\ sent' = send(send(sent, c, step1), c, snapshot)
        /\ pc' = [pc EXCEPT ![c] = "active"]
        /\ UNCHANGED <<closeCode, readyState>>

\* validateSession has resolved; the handler runs up to its next await
SessionResolved(c) ==
    /\ ~crashed
    /\ pc[c] = "validating"
    /\ \E dbFails \in BOOLEAN :
        LET u == validateSession(cookie[c], dbFails)
            projectId == parseRoomName(url[c]).projectId
        IN  /\ user' = [user EXCEPT ![c] = u]
            /\ IF projectId # Null
               THEN IF u = Null
                    THEN Reject(c, CloseAuthRequired)
                    ELSE /\ pc' = [pc EXCEPT ![c] = "checking"]
                         /\ UNCHANGED <<docs, accessRole, sent, closeCode,
                                        readyState>>
               ELSE Admit(c, "editor")
    /\ UNCHANGED <<dbUrl, url, cookie, crashed, nframes, last>>

\* checkProjectAccess has resolved; the handler runs to its end
AccessResolved(c) ==
    /\ ~crashed
    /\ pc[c] = "checking"
    /\ \E dbFails \in BOOLEAN :
        LET role == checkProjectAccess(user[c],
                                       parseRoomName(url[c]).projectId, dbFails)
        IN  IF role = Null
            THEN Reject(c, CloseAccessDenied)
            ELSE Admit(c, role)
    /\ UNCHANGED <<dbUrl, url, cookie, user, crashed, nframes, last>>

\* ---------------------------------------------------------- message loop
\* frames a client may put on the wire
SyncStep1Frame(sv) ==
    VarUint(messageSync) \o VarUint(messageYjsSyncStep1)
    \o VarUint8Array(encodeStateVector(sv))

SyncStep2Frame(structs) ==
    VarUint(messageSync) \o VarUint(messageYjsSyncStep2)
    \o VarUint8Array(encodeUpdate(structs))

UpdateFrame(structs) ==
    VarUint(messageSync) \o VarUint(messageYjsUpdate)
    \o VarUint8Array(encodeUpdate(structs))

AwarenessFrame(update) == VarUint(messageAwareness) \o VarUint8Array(update)

CursorState == 2

SyncFrames ==
    {SyncStep1Frame(sv) : sv \in {{}, {1}}}
    \cup {SyncStep2Frame({2})}
    \cup {UpdateFrame(u) : u \in {{1}, {1, 2}}}

PresenceFrames(c) ==
    {AwarenessFrame(<<1, c, 1, CursorState>>),
     AwarenessFrame(<<1, c, 2, StateNull>>),
     AwarenessFrame(<<1, ServerId, 1, StateNull>>)}

MalformedFrames == {<<messageSync, 3, 0>>, <<2>>, <<>>}

ClientFrames(c) == SyncFrames \cup PresenceFrames(c) \cup MalformedFrames

Throw ==
    /\ crashed' = TRUE
    /\ UNCHANGED <<docs, sent>>

\* seeded fault: a read-only sender is never answered
readOnlyReplies_Never(reply, syncMessageType) == FALSE

\* line 197: a read-only sender gets the reply of a sync step only
readOnlyReplies(reply, syncMessageType) ==
    Len(reply) > 1 /\ syncMessageType # messageYjsUpdate

\* seeded fault: connections that may write get no handshake answer
writerReplies_Never(reply) == FALSE

\* line 206
writerReplies(reply) == Len(reply) > 1

\* line 211: the update the relay reads back out of the frame
readBroadcastUpdate(data) == readVarUint8Array(slice(data, 1), 1)

\* case messageSync, lines 187-219
HandleSync(c, data, pos) ==
    LET name == url[c]
        m == getYDoc(docs, name)
        room == m[name]
        r == readSyncMessage(data, pos, room.doc)
        reply == VarUint(messageSync) \o r.reply
        u == readBroadcastUpdate(data)
        broadcastMessage == VarUint(messageSync) \o writeUpdate(u.bytes)
    IN  IF r.throws THEN Throw
        ELSE IF isReadOnly(c)
        THEN /\ docs' = [m EXCEPT ![name].doc = r.doc]
             /\ sent' = IF readOnlyReplies(reply, r.type)
                        THEN send(sent, c, reply) ELSE sent
             /\ UNCHANGED crashed
        ELSE LET s1 == IF writerReplies(reply)
                       THEN send(sent, c, reply) ELSE sent
             IN  /\ docs' = [m EXCEPT ![name].doc = r.doc]
                 /\ IF r.type = messageYjsUpdate
                    THEN IF u.ok
                         THEN /\ sent' = broadcast(s1, room.conns, c,
                                                   broadcastMessage)
                              /\ UNCHANGED crashed
                         ELSE /\ sent' = s1
                              /\ crashed' = TRUE
                    ELSE /\ sent' = s1
                         /\ UNCHANGED crashed

\* seeded fault: presence of read-only senders is dropped
HandleAwareness_ViewersMuted(c, data, pos) ==
    LET name == url[c]
        m == getYDoc(docs, name)
        room == m[name]
        update == readVarUint8Array(data, pos)
        applied == applyAwarenessUpdate(room.awareness, update.bytes)
        awarenessMessage == VarUint(messageAwareness)
                            \o VarUint8Array(update.bytes)
    IN  IF isReadOnly(c) THEN UNCHANGED <<docs, sent, crashed>>
        ELSE IF ~update.ok \/ ~applied.ok THEN Throw
        ELSE /\ docs' = [m EXCEPT ![name].awareness = applied.aw]
             /\ sent' = broadcast(sent, room.conns, c, awarenessMessage)
             /\ UNCHANGED crashed

\* case messageAwareness, lines 220-230
HandleAwareness(c, data, pos) ==
    LET name == url[c]
        m == getYDoc(docs, name)
        room == m[name]
        update == readVarUint8Array(data, pos)
        applied == applyAwarenessUpdate(room.awareness, update.bytes)
        awarenessMessage == VarUint(messageAwareness)
                            \o VarUint8Array(update.bytes)
    IN  IF ~update.ok \/ ~applied.ok THEN Throw
        ELSE /\ docs' = [m EXCEPT ![name].awareness = applied.aw]
             /\ sent' = broadcast(sent, room.conns, c, awarenessMessage)
             /\ UNCHANGED crashed

\* seeded fault: a default case that throws
OnMessage_DefaultThrows(c, data) ==
    LET messageType == readVarUint(data, 1)
    IN  IF ~messageType.ok THEN Throw
        ELSE IF messageType.val = messageSync
        THEN HandleSync(c, data, messageType.pos)
        ELSE IF messageType.val = messageAwareness
        THEN HandleAwareness(c, data, messageType.pos)
        ELSE Throw

\* conn.on('message'), lines 181-232
OnMessage(c, data) ==
    LET messageType == readVarUint(data, 1)
    IN  IF ~messageType.ok THEN Throw
        ELSE IF messageType.val = messageSync
        THEN HandleSync(c, data, messageType.pos)
        ELSE IF messageType.val = messageAwareness
        THEN HandleAwareness(c, data, messageType.pos)
        ELSE UNCHANGED <<docs, sent, crashed>>

\* the handler of c waits for the store: these are its only awaits that
\* return to the event loop, so that other events can run in between (a
\* lookup without cookie or without store resumes in the same tick)
AwaitsStore(c) ==
    \/ pc[c] = "checking"
    \/ pc[c] = "validating" /\ cookie[c] # Null /\ dbUrl

\* frames a client may send before it has heard from the relay
EarlyFrames(c) ==
    {UpdateFrame({1}), AwarenessFrame(<<1, c, 1, CursorState>>)}

\* seeded fault: the listeners are registered when the handler starts
listening_FromConnect(c) == pc[c] \in {"validating", "checking", "active"}

\* seeded fault: the listeners are registered before the role lookup
listening_FromSession(c) == pc[c] \in {"checking", "active"}

\* line 181: the 'message' listener is registered at the end of admission
listening(c) == pc[c] = "active"

\* a client sends a frame on its open transport; the 'message' event runs
\* the listener if there is one and is lost otherwise
Message(c) ==
    /\ ~crashed
    /\ pc[c] = "active" \/ AwaitsStore(c)
    /\ readyState[c] = "OPEN"
    /\ nframes < MaxFrames
    /\ \E data \in (IF pc[c] = "active" THEN ClientFrames(c)
                                        ELSE EarlyFrames(c)) :
        /\ IF listening(c)
           THEN OnMessage(c, data)
           ELSE UNCHANGED <<docs, sent, crashed>>
        /\ last' = Event(c, data)
    /\ nframes' = nframes + 1
    /\ UNCHANGED <<dbUrl, pc, url, cookie, user, accessRole, readyState,
                   closeCode>>

\* conn.on('close'), lines 234-237
OnClose(c) ==
    docs' = [docs EXCEPT
                ![url[c]].conns = @ \ {c},
                ![url[c]].awareness = removeAwarenessStates(@, ServerId)]

\* the transport of a connection goes away (client close or network loss);
\* the 'close' event reaches the listener only if it is registered already
TransportClose(c) ==
    /\ ~crashed
    /\ pc[c] = "active" \/ AwaitsStore(c)
    /\ readyState[c] = "OPEN"
    /\ readyState' = [readyState EXCEPT ![c] = "CLOSED"]
    /\ IF pc[c] = "active"
       THEN /\ OnClose(c)
            /\ pc' = [pc EXCEPT ![c] = "closed"]
       ELSE UNCHANGED <<docs, pc>>
    /\ UNCHANGED <<dbUrl, url, cookie, user, accessRole, closeCode, sent,
                   crashed, nframes, last>>

\* the requests each client of the relay specification may make
RelayRequests(c) ==
    IF c = 1 THEN {<<P1F1, "s_edit">>, <<Scratchpad, Null>>}
    ELSE IF c = 2 THEN {<<P1F1, "s_view">>, <<P1F2, "s_own">>}
    ELSE {<<P1F1, "s_own">>, <<P1F1, "s_none">>}

Next ==
    \E c \in Conns :
        \/ Connect(c, RelayRequests(c))
        \/ SessionResolved(c)
        \/ AccessResolved(c)
        \/ Message(c)
        \/ TransportClose(c)

Spec == Init /\ [][Next]_vars

\* Admission alone, over every room name and every credential
AdmissionConns == {1, 2}

AllRequests == RoomNames \X Cookies

NextAdmission ==
    \E c \in AdmissionConns :
        \/ Connect(c, AllRequests)
        \/ SessionResolved(c)
        \/ AccessResolved(c)
        \/ TransportClose(c)

SpecAdmission == Init /\ [][NextAdmission]_vars

\* The event loop runs every continuation that is ready: a resolved lookup
\* is always followed by the rest of the 'connection' handler.  Clients
\* are under no obligation to connect, send or close.
FairSpec ==
    /\ Spec
    /\ \A c \in Conns : WF_vars(SessionResolved(c))
    /\ \A c \in Conns : WF_vars(AccessResolved(c))

\* ------------------------------------------------------------ properties
\* the scoped room-name grammar project:<projectId>:file:<fileId>
Scoped(name) ==
    /\ Len(name) = 4
    /\ name[1] = "project" /\ name[3] = "file"
    /\ name[2] # "" /\ name[4] # ""

Members(name) == IF name \in DOMAIN docs THEN docs[name].conns ELSE {}

IsMember(c) == \E name \in DOMAIN docs : c \in docs[name].conns

IsSync(data) == Len(data) >= 2 /\ data[1] = messageSync

IsStep1(data) == IsSync(data) /\ data[2] = messageYjsSyncStep1

IsUpdate(data) == IsSync(data) /\ data[2] = messageYjsUpdate

IsAwareness(data) == Len(data) >= 2 /\ data[1] = messageAwareness

\* the length-prefixed payload of a sync frame (after tag and sub-type)
SyncPayload(data) == readVarUint8Array(data, 3).bytes

\* the length-prefixed payload of a presence frame (after the tag)
AwarenessPayload(data) == readVarUint8Array(data, 2).bytes

\* a step in which a client frame arrived
FrameStep == nframes' # nframes

\* a frame step of a connection whose admission had completed
MessageStep == FrameStep /\ pc[last'.conn] = "active"

OpenPeers(c) == {p \in Members(url[c]) \ {c} : readyState[p] = "OPEN"}

\* C1: handling a content-sync frame from a viewer leaves the room's
\* document as it was and sends nothing to the other connections.
C1_ViewerSyncLeavesDocument ==
    [][(MessageStep /\ accessRole[last'.conn] = "viewer" /\ IsSync(last'.data))
        => /\ docs'[url[last'.conn]].doc = docs[url[last'.conn]].doc
           /\ \A p \in Conns \ {last'.conn} : sent'[p] = sent[p]]_vars

\* C2: handling a content-sync frame from a viewer sends no frame to any
\* other connection.
C2_ViewerSyncNotRelayed ==
    [][(MessageStep /\ accessRole[last'.conn] = "viewer" /\ IsSync(last'.data))
        => \A p \in Conns \ {last'.conn} : sent'[p] = sent[p]]_vars

C2_Witness ==
    /\ last.conn \in Conns
    /\ last.admitted
    /\ accessRole[last.conn] = "viewer"
    /\ IsUpdate(last.data)
    /\ ~crashed
    /\ OpenPeers(last.conn) # {}

NoUserCredential(ck) ==
    \/ ck = Null
    \/ ck \notin DOMAIN SessionRows
    \/ SessionRows[ck].expired

\* C3: a connection to a scoped room whose cookie is missing, unknown or
\* expired is closed with 4001 once the session lookup has resolved; it is
\* never a member of a room and is never sent a frame.
C3_Unauthenticated ==
    \A c \in Conns :
        (pc[c] # "new" /\ Scoped(url[c]) /\ NoUserCredential(cookie[c]))
        => /\ pc[c] \in {"validating", "rejected"}
           /\ pc[c] = "rejected" => closeCode[c] = CloseAuthRequired
           /\ pc[c] = "validating" => closeCode[c] = 0
           /\ ~IsMember(c)
           /\ sent[c] = <<>>

C3_Witness ==
    \E c \in Conns :
        /\ url[c] = P2F9
        /\ cookie[c] = Null
        /\ pc[c] = "rejected"
        /\ closeCode[c] = CloseAuthRequired
        /\ dbUrl

NoProjectRole(userId, projectId) ==
    \/ projectId \notin DOMAIN ProjectRows
    \/ /\ ProjectRows[projectId] # userId
       /\ userId \notin DOMAIN CollaboratorRows[projectId]

\* C4: a connection to a scoped room whose session resolved to a user who
\* has no role on the room's project is closed with 4003 once the role
\* lookup has resolved; it is never a member of a room and is never sent a
\* frame.
C4_AccessDenied ==
    \A c \in Conns :
        (/\ pc[c] \notin {"new", "validating"}
         /\ Scoped(url[c])
         /\ user[c] # Null
         /\ NoProjectRole(user[c], url[c][2]))
        => /\ pc[c] \in {"checking", "rejected"}
           /\ pc[c] = "rejected" => closeCode[c] = CloseAccessDenied
           /\ pc[c] = "checking" => closeCode[c] = 0
           /\ ~IsMember(c)
           /\ sent[c] = <<>>

C4_Witness ==
    \E c, d \in Conns :
        /\ url[c] = P1F1 /\ user[c] = "u_none"
        /\ pc[c] = "rejected" /\ closeCode[c] = CloseAccessDenied
        /\ url[d] = P2F9 /\ user[d] = "u_own"
        /\ pc[d] = "rejected" /\ closeCode[d] = CloseAccessDenied

\* C5: a connection to an unscoped room is admitted as soon as the session
\* lookup has resolved, as an editor that is not read-only, whatever its
\* cookie and whether or not DATABASE_URL is set; the relay never closes it.
C5_UnscopedAdmitted ==
    \A c \in Conns :
        (pc[c] # "new" /\ ~Scoped(url[c]))
        => /\ pc[c] \in {"validating", "active", "closed"}
           /\ closeCode[c] = 0
           /\ pc[c] = "validating" => ~IsMember(c)
           /\ pc[c] = "active"
                => /\ c \in Members(url[c])
                   /\ accessRole[c] = "editor"
                   /\ ~isReadOnly(c)
           /\ pc[c] = "closed" => accessRole[c] = "editor"

C5_Witness ==
    \E c, d \in Conns :
        /\ url[c] = Scratchpad /\ cookie[c] = Null /\ pc[c] = "active"
        /\ accessRole[c] = "editor"
        /\ url[d] = ProjectP1File /\ cookie[d] = "s_view" /\ pc[d] = "active"
        /\ accessRole[d] = "editor"
        /\ ~dbUrl

\* C6: every member of a room has role owner, editor or viewer, and every
\* member of a scoped room has a resolved user.
C6_MembersHaveRole ==
    \A name \in DOMAIN docs : \A c \in docs[name].conns :
        /\ accessRole[c] \in {"owner", "editor", "viewer"}
        /\ Scoped(name) => user[c] # Null

C6_Witness ==
    \E c, d \in Conns :
        /\ c \in Members(P1F1) /\ accessRole[c] = "viewer"
        /\ d \in Members(Scratchpad) /\ user[d] = Null

\* C7: when a connection that is not read-only sends an update frame, every
\* other open member of its room is sent one frame carrying the same
\* update, and nobody else (the sender included) is sent anything.
C7_UpdateRelayed ==
    [][(/\ MessageStep
        /\ accessRole[last'.conn] # "viewer"
        /\ IsUpdate(last'.data)
        /\ ~crashed')
        => \A p \in Conns :
            IF p \in OpenPeers(last'.conn)
            THEN /\ Len(sent'[p]) = Len(sent[p]) + 1
                 /\ SubSeq(sent'[p], 1, Len(sent[p])) = sent[p]
                 /\ IsUpdate(sent'[p][Len(sent'[p])])
                 /\ SyncPayload(sent'[p][Len(sent'[p])])
                        = SyncPayload(last'.data)
            ELSE sent'[p] = sent[p]]_vars

\* C8: an update of a connection that is not read-only is merged into the
\* room's document and stays merged, and the answer to a state-vector
\* request of any connection is sent to that connection and carries exactly
\* the structs of the document that the state vector lacks.
C8_LateJoinerCatchesUp ==
    [][/\ (/\ MessageStep
           /\ accessRole[last'.conn] # "viewer"
           /\ IsUpdate(last'.data)
           /\ decodeUpdate(SyncPayload(last'.data)).ok)
          => decodeUpdate(SyncPayload(last'.data)).set
                \subseteq docs'[url[last'.conn]].doc
       /\ \A name \in DOMAIN docs :
            name \in DOMAIN docs' /\ docs[name].doc \subseteq docs'[name].doc
       /\ (/\ MessageStep
           /\ IsStep1(last'.data)
           /\ decodeStateVector(SyncPayload(last'.data)).ok)
          => LET c == last'.conn
                 f == sent'[c][Len(sent'[c])]
             IN  /\ Len(sent'[c]) = Len(sent[c]) + 1
                 /\ f[1] = messageSync
                 /\ f[2] = messageYjsSyncStep2
                 /\ decodeUpdate(SyncPayload(f)).ok
                 /\ decodeUpdate(SyncPayload(f)).set
                      = docs[url[c]].doc
                        \ decodeStateVector(SyncPayload(last'.data)).set]_vars

C8_Witness ==
    /\ last.conn \in Conns
    /\ last.admitted
    /\ accessRole[last.conn] = "viewer"
    /\ last.data = SyncStep1Frame({})
    /\ nframes = 2
    /\ Len(sent[last.conn]) = 3
    /\ sent[last.conn][1] = VarUint(messageSync) \o writeSyncStep1({1})
    /\ decodeUpdate(SyncPayload(sent[last.conn][3])).set = {1}

\* C9: a presence frame from any member, whatever its role, is applied to
\* the room's awareness table, and a frame with the same payload is sent to
\* every other open member of the room and to nobody else.
C9_PresenceRelayed ==
    [][(MessageStep /\ IsAwareness(last'.data) /\ ~crashed')
        => LET c == last'.conn
               update == AwarenessPayload(last'.data)
               aw == docs[url[c]].awareness
               awAfter == docs'[url[c]].awareness
               currClock == IF update[2] \in DOMAIN aw.meta
                            THEN aw.meta[update[2]] ELSE 0
           IN  /\ \A p \in Conns :
                    sent'[p] = IF p \in OpenPeers(c)
                               THEN Append(sent[p], VarUint(messageAwareness)
                                              \o VarUint8Array(update))
                               ELSE sent[p]
               /\ (update[1] = 1 /\ update[3] > currClock)
                    => /\ update[2] \in DOMAIN awAfter.meta
                       /\ awAfter.meta[update[2]] >= update[3]
                       /\ update[4] # StateNull
                            => GetState(awAfter.states, update[2]) = update[4]
                       /\ (update[4] = StateNull /\ update[2] # ServerId)
                            => ~HasState(awAfter.states, update[2])]_vars

C9_Witness ==
    /\ last.conn \in Conns
    /\ last.admitted
    /\ accessRole[last.conn] = "viewer"
    /\ last.data = AwarenessFrame(<<1, last.conn, 1, CursorState>>)
    /\ ~crashed
    /\ HasState(docs[url[last.conn]].awareness.states, last.conn)
    /\ \E p \in OpenPeers(last.conn) :
        /\ accessRole[p] \in {"owner", "editor"}
        /\ sent[p][Len(sent[p])] = last.data

\* p has been sent a presence frame that removes the state of client k
RemovalSent(p, k) ==
    \E i \in DOMAIN sent[p] :
        /\ IsAwareness(sent[p][i])
        /\ LET update == AwarenessPayload(sent[p][i])
           IN  \E j \in 0..(update[1] - 1) :
                /\ 4 + 3 * j <= Len(update)
                /\ update[2 + 3 * j] = k
                /\ update[4 + 3 * j] = StateNull

\* C10: after a member c has closed, every open connection that remains in
\* c's room is eventually sent a presence frame removing c's client id.
C10_RemovalBroadcast ==
    \A c \in Conns : \A p \in Conns \ {c} :
        (pc[c] = "closed" /\ p \in OpenPeers(c))
        ~> \/ RemovalSent(p, c)
           \/ p \notin OpenPeers(c)
           \/ crashed


\* C11: a frame handled in one room sends nothing to the members of any
\* other room and leaves every other room's document, awareness table and
\* connection set as they were.
C11_RoomIsolation ==
    [][MessageStep
        => \A n \in DOMAIN docs \ {url[last'.conn]} :
              /\ n \in DOMAIN docs'
              /\ docs'[n] = docs[n]
              /\ \A p \in docs[n].conns : sent'[p] = sent[p]]_vars

\* an editor's update was merged and relayed in one file of project p1
\* while an open connection sits in another file of the same project
C11_Witness ==
    /\ last.conn \in Conns
    /\ last.admitted
    /\ last.data = UpdateFrame({1})
    /\ url[last.conn] = P1F1
    /\ 1 \in docs[P1F1].doc
    /\ \E q \in docs[P1F1].conns \ {last.conn} : Len(sent[q]) = 3
    /\ P1F2 \in DOMAIN docs
    /\ docs[P1F2].doc = NewDoc
    /\ \E p \in docs[P1F2].conns :
          readyState[p] = "OPEN" /\ Len(sent[p]) = 2

\* C12: a connection to a scoped room whose admission met an unavailable
\* store (no store configured, or a lookup failing although the cookie names
\* a live session of a user with a role on the project) is closed with 4001,
\* is never a member of a room and is never sent a frame.
C12_StoreUnavailable ==
    \A c \in Conns :
        /\ (/\ Scoped(url[c])
            /\ ~dbUrl
            /\ pc[c] \notin {"new", "validating"})
           => /\ pc[c] = "rejected"
              /\ closeCode[c] = CloseAuthRequired
        /\ (/\ Scoped(url[c])
            /\ pc[c] = "rejected"
            /\ ~NoUserCredential(cookie[c])
            /\ ~NoProjectRole(SessionRows[cookie[c]].user, url[c][2]))
           => /\ closeCode[c] = CloseAuthRequired
              /\ ~IsMember(c)
              /\ sent[c] = <<>>

\* C13: a client frame has an effect only if its connection is active when
\* the frame arrives: a frame arriving during admission changes no room,
\* sends nothing and stops nothing, and every step that changes a room's
\* document or awareness table is a frame step of a connection that is
\* active, open and a member of that room.
C13_OnlyActiveProcessed ==
    [][/\ (FrameStep /\ pc[last'.conn] # "active")
          => /\ docs' = docs
             /\ sent' = sent
             /\ crashed' = crashed
       /\ \A n \in DOMAIN docs :
            (\/ n \notin DOMAIN docs'
             \/ docs'[n].doc # docs[n].doc
             \/ /\ docs'[n].awareness # docs[n].awareness
                /\ docs'[n].conns = docs[n].conns)
            => /\ FrameStep
               /\ pc[last'.conn] = "active"
               /\ readyState[last'.conn] = "OPEN"
               /\ url[last'.conn] = n
               /\ last'.conn \in docs[n].conns]_vars

\* an update sent during admission was lost: its sender was admitted
\* afterwards and the room's document is still empty
C13_Witness ==
    \E c \in Conns :
        /\ last = [conn |-> c, data |-> UpdateFrame({1}), admitted |-> FALSE]
        /\ pc[c] = "active"
        /\ accessRole[c] = "owner"
        /\ docs[url[c]].doc = NewDoc
        /\ Len(sent[c]) = 2

\* C14: handling a malformed or undecodable frame of an active connection
\* fails that frame only: the process keeps running, every room stays as
\* it was and the sender stays active with its transport open.
C14_MalformedIsolated ==
    [][(MessageStep /\ last'.data \in MalformedFrames)
        => /\ ~crashed'
           /\ docs' = docs
           /\ pc'[last'.conn] = "active"
           /\ readyState'[last'.conn] = "OPEN"]_vars

\* C15: the step that admits a connection sends it exactly two frames, in
\* this order: sync step 1 with the state vector of the room's current
\* document, then the presence frame with the full awareness snapshot; the
\* connection was sent nothing before.
C15_InitialFrames ==
    [][\A c \in Conns :
        (pc[c] # "active" /\ pc'[c] = "active")
        => /\ sent[c] = <<>>
           /\ sent'[c] =
                <<SyncStep1Frame(docs'[url[c]].doc),
                  AwarenessFrame(
                      encodeAwarenessUpdate(docs'[url[c]].awareness))>>
           /\ docs'[url[c]].doc =
                (IF url[c] \in DOMAIN docs THEN docs[url[c]].doc ELSE NewDoc)]_vars

\* C16: every member of a room's connection set has an open transport: a
\* connection whose transport has closed, during admission or after it, is
\* in no room's connection set.
C16_MembersLive ==
    \A c \in Conns : IsMember(c) => readyState[c] = "OPEN"

\* C17: every entry of a room's awareness table is keyed by the client id
\* of a connection that is or was a member of that room, and no entry is
\* left for a connection whose close has been handled.
C17_AwarenessKeys ==
    \A n \in DOMAIN docs :
        \A i \in DOMAIN docs[n].awareness.states :
            LET id == docs[n].awareness.states[i].id
            IN  /\ id \in Conns
                /\ url[id] = n
                /\ pc[id] = "active"

\* C18: a connection is in the connection set of at most one room, and that
\* room is the one named in its request.
C18_OneRoom ==
    \A c \in Conns :
        \A n \in DOMAIN docs :
            c \in docs[n].conns => /\ n = url[c]
                                   /\ pc[c] = "active"

\* three rooms exist and each has a member of its own
C18_Witness ==
    /\ DOMAIN docs = {P1F1, P1F2, Scratchpad}
    /\ \A n \in DOMAIN docs :
          \E c \in docs[n].conns : readyState[c] = "OPEN"

\* frame carries the update or presence payload of the client frame data
Carries(frame, data) ==
    IF IsAwareness(data)
    THEN IsAwareness(frame) /\ AwarenessPayload(frame) = AwarenessPayload(data)
    ELSE IsUpdate(frame) /\ SyncPayload(frame) = SyncPayload(data)

\* C19: when a presence frame, or an update frame of a connection that is
\* not read-only, is handled while some other member of the room has a
\* transport that is not open, that member is sent nothing, every other
\* open member is sent one frame carrying the message, the sender is sent
\* nothing and stays active, the process keeps running, and the message is
\* applied to the room.
C19_ClosedPeerSkipped ==
    [][(/\ MessageStep
        /\ \/ IsAwareness(last'.data)
           \/ IsUpdate(last'.data) /\ accessRole[last'.conn] # "viewer"
        /\ \E q \in Members(url[last'.conn]) \ {last'.conn} :
              readyState[q] # "OPEN")
        => LET c == last'.conn
               room == docs'[url[c]]
           IN  /\ \A p \in Members(url[c]) \ {c} :
                    IF readyState[p] = "OPEN"
                    THEN /\ Len(sent'[p]) = Len(sent[p]) + 1
                         /\ SubSeq(sent'[p], 1, Len(sent[p])) = sent[p]
                         /\ Carries(sent'[p][Len(sent'[p])], last'.data)
                    ELSE sent'[p] = sent[p]
               /\ sent'[c] = sent[c]
               /\ ~crashed'
               /\ pc'[c] = "active"
               /\ IsUpdate(last'.data)
                    => decodeUpdate(SyncPayload(last'.data)).set
                          \subseteq room.doc
               /\ IsAwareness(last'.data)
                    => AwarenessPayload(last'.data)[2]
                          \in DOMAIN room.awareness.meta]_vars

\* C20: frames reach a connection in the order in which the relay handled
\* the client frames they come from: every step only appends to what a
\* connection has been sent, the step that handles a client frame appends
\* at most one frame for each other connection, and a connection that is
\* already admitted is sent frames by no other kind of step.
C20_FifoPerSender ==
    [][\A p \in Conns :
        /\ Len(sent'[p]) >= Len(sent[p])
        /\ SubSeq(sent'[p], 1, Len(sent[p])) = sent[p]
        /\ (MessageStep /\ p # last'.conn)
              => Len(sent'[p]) <= Len(sent[p]) + 1
        /\ (pc[p] = "active" /\ sent'[p] # sent[p]) => MessageStep]_vars

\* connection c sent its cursor and then its removal, and a peer p admitted
\* before both was sent the two relays in that order
C20_Witness ==
    \E c \in Conns :
        /\ last = [conn |-> c,
                   data |-> AwarenessFrame(<<1, c, 2, StateNull>>),
                   admitted |-> TRUE]
        /\ nframes = 2
        /\ \E p \in OpenPeers(c) :
              /\ Len(sent[p]) = 4
              /\ sent[p][3] = AwarenessFrame(<<1, c, 1, CursorState>>)
              /\ sent[p][4] = last.data

\* C21: when a connection that is not read-only sends an update whose
\* structs are all in the room's document already, the document stays as it
\* was and every other open member of the room is still sent one frame
\* carrying that update.
C21_DuplicateRelayed ==
    [][(/\ MessageStep
        /\ accessRole[last'.conn] # "viewer"
        /\ IsUpdate(last'.data)
        /\ decodeUpdate(SyncPayload(last'.data)).ok
        /\ decodeUpdate(SyncPayload(last'.data)).set
              \subseteq docs[url[last'.conn]].doc)
        => /\ docs'[url[last'.conn]].doc = docs[url[last'.conn]].doc
           /\ \A p \in OpenPeers(last'.conn) :
                /\ Len(sent'[p]) = Len(sent[p]) + 1
                /\ Carries(sent'[p][Len(sent'[p])], last'.data)]_vars

\* C22: whenever handling a content-sync frame of a connection that is not
\* read-only changes the room's document, be it an update frame or a
\* step-2 frame, every other open member of the room is sent, in that step,
\* one update frame carrying every struct the document gained.
C22_MutationRelayed ==
    [][(/\ MessageStep
        /\ accessRole[last'.conn] # "viewer"
        /\ IsSync(last'.data)
        /\ docs'[url[last'.conn]].doc # docs[url[last'.conn]].doc)
        => \A p \in OpenPeers(last'.conn) :
              /\ Len(sent'[p]) = Len(sent[p]) + 1
              /\ IsUpdate(sent'[p][Len(sent'[p])])
              /\ decodeUpdate(SyncPayload(sent'[p][Len(sent'[p])])).ok
              /\ docs'[url[last'.conn]].doc \ docs[url[last'.conn]].doc
                    \subseteq
                 decodeUpdate(SyncPayload(sent'[p][Len(sent'[p])])).set]_vars

\* C23: a well-formed step-1 frame of any active connection, read-only or
\* not, is answered with one step-2 frame sent to that connection, which
\* together with the state vector it answers covers the room's document;
\* no other connection is sent anything and no room changes.
C23_Step1AnsweredToSender ==
    [][(/\ MessageStep
        /\ IsStep1(last'.data)
        /\ decodeStateVector(SyncPayload(last'.data)).ok)
        => LET c == last'.conn
               sv == decodeStateVector(SyncPayload(last'.data)).set
               answer == sent'[c][Len(sent'[c])]
           IN  /\ docs' = docs
               /\ ~crashed'
               /\ \A p \in Conns \ {c} : sent'[p] = sent[p]
               /\ Len(sent'[c]) = Len(sent[c]) + 1
               /\ SubSeq(sent'[c], 1, Len(sent[c])) = sent[c]
               /\ IsSync(answer)
               /\ answer[2] = messageYjsSyncStep2
               /\ decodeUpdate(SyncPayload(answer)).ok
               /\ docs[url[c]].doc
                     \subseteq decodeUpdate(SyncPayload(answer)).set \cup sv]_vars

\* a viewer asked with an empty state vector in a room whose document
\* holds struct 1 and was sent that struct, while an open peer was sent
\* nothing beyond its two initial frames
C23_Witness ==
    /\ last.conn \in Conns
    /\ last.admitted
    /\ nframes = 2
    /\ accessRole[last.conn] = "viewer"
    /\ last.data = SyncStep1Frame({})
    /\ docs[url[last.conn]].doc = {1}
    /\ sent[last.conn][Len(sent[last.conn])] = SyncStep2Frame({1})
    /\ \E p \in OpenPeers(last.conn) : Len(sent[p]) = 2

\* C24: the admission of a connection to an unscoped room resolves no
\* credential: its handler never waits for a session lookup or a role
\* lookup in the store, and no user is ever resolved for it.
C24_NoResolutionUnscoped ==
    \A c \in Conns :
        (pc[c] # "new" /\ ~Scoped(url[c]))
        => /\ pc[c] # "checking"
           /\ ~(pc[c] = "validating" /\ cookie[c] # Null /\ dbUrl)
           /\ user[c] = Null

\* C25: a frame of an active connection whose leading tag decodes to a
\* number other than 0 and 1 has no effect: no room changes, nothing is
\* sent to any connection, the process keeps running and the sender stays
\* active with its transport open.
C25_UnknownTagNoEffect ==
    [][(/\ MessageStep
        /\ readVarUint(last'.data, 1).ok
        /\ readVarUint(last'.data, 1).val \notin {messageSync, messageAwareness})
        => /\ docs' = docs
           /\ sent' = sent
           /\ ~crashed'
           /\ pc' = pc
           /\ readyState' = readyState]_vars

\* a member of a room with an open peer has sent a frame with tag 2 and
\* the relay is still running
C25_Witness ==
    /\ last.conn \in Conns
    /\ last.admitted
    /\ last.data = <<2>>
    /\ ~crashed
    /\ pc[last.conn] = "active"
    /\ OpenPeers(last.conn) # {}

\* C26: the registry has a room for a name only if some connection was
\* admitted under that name; a room, once there, stays: no step removes it
\* or starts it over, its document only grows and its connection set loses
\* a member only when that member's close is handled; and a connection
\* admitted under a name that has a room joins that very room.
C26_RoomRegistry ==
    [][/\ \A n \in DOMAIN docs' :
            \E c \in Conns : url'[c] = n /\ pc'[c] \in {"active", "closed"}
       /\ \A n \in DOMAIN docs :
            /\ n \in DOMAIN docs'
            /\ docs[n].doc \subseteq docs'[n].doc
            /\ \A k \in DOMAIN docs[n].awareness.meta :
                  k \in DOMAIN docs'[n].awareness.meta
            /\ \A c \in docs[n].conns :
                  c \in docs'[n].conns \/ pc'[c] = "closed"
            /\ \A c \in Conns :
                  (pc[c] # "active" /\ pc'[c] = "active" /\ url[c] = n)
                  => docs'[n] = [docs[n] EXCEPT !.conns = @ \cup {c}]]_vars

\* two connections admitted under P1F1 share its only room, which held a
\* struct when one of them joined and none when the other did, while a
\* third connection was rejected under the same name
C26_Witness ==
    /\ DOMAIN docs = {P1F1}
    /\ docs[P1F1].conns = {1, 2}
    /\ docs[P1F1].doc # NewDoc
    /\ Len(sent[1]) = 2 /\ Len(sent[2]) = 2
    /\ sent[1][1] # sent[2][1]
    /\ pc[3] = "rejected"

C28_Classification ==
    \A c \in Conns :
        pc[c] # "new"
        => LET name == url[c]
               parsed == parseRoomName(name)
           IN  IF /\ Len(name) = 4
                  /\ name[1] = "project" /\ name[3] = "file"
                  /\ name[2] # "" /\ name[4] # ""
               THEN parsed = [projectId |-> name[2], fileId |-> name[4]]
               ELSE /\ parsed = [projectId |-> Null, fileId |-> Join(name)]
                    /\ pc[c] \notin {"checking", "rejected"}
                    /\ pc[c] # "validating" => accessRole[c] = "editor"

\* a name with a fifth segment was admitted without a cookie next to the
\* owner admitted to a scoped room
C28_Witness ==
    /\ dbUrl
    /\ \E c \in Conns :
          /\ url[c] = ExtraSegment /\ cookie[c] = Null
          /\ pc[c] = "active" /\ accessRole[c] = "editor"
    /\ \E d \in Conns :
          /\ url[d] = P1F1 /\ pc[d] = "active" /\ accessRole[d] = "owner"

\* C29: a frame sent while its connection's admission waits for the store
\* is gone for good: as long as it is the only frame any client has sent,
\* whether or not its sender has been admitted since, every document is
\* empty, no awareness table has an entry of a client, and no connection
\* has been sent anything but its two initial frames, which describe an
\* empty document and a table without clients.
C29_EarlyFramesDiscarded ==
    (nframes = 1 /\ last.conn \in Conns /\ ~last.admitted)
    => /\ ~crashed
       /\ \A n \in DOMAIN docs :
            /\ docs[n].doc = NewDoc
            /\ \A i \in DOMAIN docs[n].awareness.states :
                  docs[n].awareness.states[i].id = ServerId
            /\ DOMAIN docs[n].awareness.meta = {ServerId}
       /\ \A p \in Conns :
            /\ Len(sent[p]) \in {0, 2}
            /\ Len(sent[p]) = 2
                 => /\ sent[p][1] = SyncStep1Frame(NewDoc)
                    /\ IsAwareness(sent[p][2])
                    /\ AwarenessPayload(sent[p][2])
                         \in {<<0>>, <<1, ServerId, 0, StateEmpty>>}

\* the owner sent an update while the relay was looking up its role, was
\* admitted afterwards and shares the room with an open peer
C29_Witness ==
    \E c \in Conns :
        /\ nframes = 1
        /\ last = [conn |-> c, data |-> UpdateFrame({1}), admitted |-> FALSE]
        /\ pc[c] = "active"
        /\ readyState[c] = "OPEN"
        /\ Len(sent[c]) = 2
        /\ OpenPeers(c) # {}

\* C30: the content-sync frames sent to the other connections do not depend
\* on what a viewer sends: when the only frame any client has sent is a
\* content-sync frame of a viewer, every content-sync frame sent to any
\* other connection, later joiners included, is the one it is sent when
\* the viewer stays silent, the step 1 of an empty document.
C30_ViewerNoninterference ==
    (/\ nframes = 1
     /\ last.conn \in Conns
     /\ last.admitted
     /\ accessRole[last.conn] = "viewer"
     /\ IsSync(last.data))
    => \A p \in Conns \ {last.conn} :
          \A i \in DOMAIN sent[p] :
              IsSync(sent[p][i]) => sent[p][i] = SyncStep1Frame(NewDoc)

====
